---- MODULE Spec2Model ----
(***************************************************************************)
(* A model of the heterogeneous fixed-size tuple of src/Tuple.h:           *)
(* tuple_leaf / tuple_impl / tuple storage, tuple_element, get<I>,         *)
(* make_tuple and operator==, used the way src/main.cpp uses them.         *)
(*                                                                         *)
(* Two tuple objects "a" and "b" of one common type sequence Ts are kept.  *)
(* A tuple's storage is a function from its tuple_leaf<I, T> base classes  *)
(* (keyed by position AND type) to the value each leaf holds.  Positions   *)
(* are zero-based as in the source; sequences are one-based, so position I *)
(* of a type sequence Ts is Ts[I + 1].                                     *)
(***************************************************************************)
EXTENDS Integers, Sequences, FiniteSets, TLC

VARIABLES Ts, store, last, watch

vars == <<Ts, store, last, watch>>

\* Largest arity of the tuple objects of Spec and SpecCtor.
MaxArity == 2

\* Largest arity of the tuple types of SpecElem, SpecWatch and SpecMake.
MaxElemArity == 3

Objs == {"a", "b"}

----------------------------------------------------------------------------
(* Element types.  A type is a base type with its top-level qualifiers.    *)

BaseTypes == {"int", "double", "char"}

Plain(b) == [base |-> b, const |-> FALSE, volatile |-> FALSE, ref |-> "none"]

NoType == [base |-> "ill_formed", const |-> FALSE, volatile |-> FALSE, ref |-> "none"]

\* The declared element types of the tuple objects (as in main.cpp:7).
ElemTypes == {Plain(b) : b \in BaseTypes}

RECURSIVE SeqsUpTo(_, _)
SeqsUpTo(S, n) ==
    IF n = 0 THEN {<<>>}
    ELSE LET shorter == SeqsUpTo(S, n - 1)
         IN  shorter \cup {Append(s, x) : s \in {t \in shorter : Len(t) = n - 1}, x \in S}

\* The type sequences Ts... of the tuple types of Spec and of SpecElem.
TypeSeqs == SeqsUpTo(ElemTypes, MaxArity)
ElemTypeSeqs == SeqsUpTo(ElemTypes, MaxElemArity)

----------------------------------------------------------------------------
(* Element values.  int and char hold an integer v; double holds v halves  *)
(* (v = 3 is 1.5) or is a NaN.                                             *)

Val(t, v) == [t |-> t, v |-> v, nan |-> FALSE]
NaN       == [t |-> "double", v |-> 0, nan |-> TRUE]
NoVal     == [t |-> "none", v |-> 0, nan |-> FALSE]

\* The values the callers of the model write and pass.
InputsOf(b) ==
    CASE b = "int"    -> {Val("int", 0), Val("int", 1)}
      [] b = "char"   -> {Val("char", 0), Val("char", 1)}
      [] b = "double" -> {Val("double", 1), NaN}
      [] OTHER        -> {}

ArgVals == UNION {InputsOf(b) : b \in BaseTypes}

\* Every value a slot of base type b can come to hold.
ValuesOf(b) ==
    CASE b = "int"    -> {Val("int", 0), Val("int", 1)}
      [] b = "char"   -> {Val("char", 0), Val("char", 1)}
      [] b = "double" -> {Val("double", 0), Val("double", 1), Val("double", 2), NaN}
      [] OTHER        -> {}

\* T{}: the value-initialised (zero) value of a type.
ZeroOf(T) == Val(T.base, 0)

\* A comparison of the object representations instead of the values.
ElemEq_bits(x, y) == x = y

\* The built-in == of two values of one element type (Tuple.h:135 applies it
\* to the two references get<Is> returns): a NaN compares unequal to all.
ElemEq(x, y) == x.t = y.t /\ ~x.nan /\ ~y.nan /\ x.v = y.v

\* value(std::forward<U>(v)): direct-initialisation of a T from a U.  The
\* set of values the build can produce: one value where the conversion is
\* defined, any value of T where it is undefined (a NaN to an integer type).
\* double -> integer truncates toward zero; integer -> double is exact.
Convert(T, x) ==
    IF x.t = T.base THEN {x}
    ELSE IF T.base = "double" THEN {Val("double", 2 * x.v)}
    ELSE IF x.t = "double" THEN
        IF x.nan THEN ValuesOf(T.base) ELSE {Val(T.base, x.v \div 2)}
    ELSE {Val(T.base, x.v % 256)}

\* The argument conversions of one constructor call: all value sequences the
\* per-leaf conversions can produce.
RECURSIVE ConvertAll(_, _)
ConvertAll(Tuple, args) ==
    IF Tuple = <<>> THEN {<<>>}
    ELSE {<<h>> \o t : h \in Convert(Head(Tuple), Head(args)),
                       t \in ConvertAll(Tail(Tuple), Tail(args))}

----------------------------------------------------------------------------
(* tuple_leaf, tuple_impl: storage.                                        *)

\* A leaf keyed by its type alone: same-typed positions share one base.
tuple_leaf_by_type(I, T) == <<0, T>>

\* The base class tuple_leaf<I, T>: one per position, keyed by both.
tuple_leaf(I, T) == <<I, T>>

\* sizeof...(Ts)
tuple_size(Tuple) == Len(Tuple)

\* std::index_sequence_for<Ts...>: 0, 1, ..., N-1
index_sequence_for(Tuple) == [k \in 1..Len(Tuple) |-> k - 1]

\* tuple_impl(Us&&... args) : tuple_leaf<Is, Ts>(std::forward<Us>(args))...
\* initialises the bases in declaration order; vals are the converted values.
RECURSIVE InitLeaves(_, _, _, _)
InitLeaves(Tuple, vals, Is, acc) ==
    IF Is = <<>> THEN acc
    ELSE LET I == Head(Is)
             k == tuple_leaf(I, Tuple[I + 1])
             rest == [x \in DOMAIN acc \ {k} |-> acc[x]]
         IN  InitLeaves(Tuple, vals, Tail(Is), rest @@ (k :> vals[I + 1]))

\* The argument pack expanded against the leaves in the opposite order.
tuple_impl_reversed(Tuple, vals) ==
    InitLeaves(Tuple, [k \in 1..Len(vals) |-> vals[Len(vals) + 1 - k]],
               index_sequence_for(Tuple), <<>>)

tuple_impl(Tuple, vals) ==
    InitLeaves(Tuple, vals, index_sequence_for(Tuple), <<>>)

\* tuple<Ts...> t{}: every leaf value-initialised.
tuple_default(Tuple) == tuple_impl(Tuple, [k \in 1..Len(Tuple) |-> ZeroOf(Tuple[k])])

----------------------------------------------------------------------------
(* tuple_element, get.                                                     *)

\* A recursion that decrements the position without stripping the head type.
tuple_element_no_strip(I, Tuple) ==
    IF Tuple = <<>> THEN NoType ELSE Head(Tuple)

\* A recursion that also ends at a one-type list, whatever the position.
RECURSIVE tuple_element_clamp(_, _)
tuple_element_clamp(I, Tuple) ==
    IF Tuple = <<>> THEN NoType
    ELSE IF I = 0 \/ Len(Tuple) = 1 THEN Head(Tuple)
    ELSE tuple_element_clamp(I - 1, Tail(Tuple))

\* tuple_element<I, tuple<T, Ts...>> : tuple_element<I - 1, tuple<Ts...>>,
\* tuple_element<0, tuple<T, Ts...>>::type = T; for tuple<> only the
\* undefined primary template matches, so ::type is ill-formed.
RECURSIVE tuple_element(_, _)
tuple_element(I, Tuple) ==
    IF Tuple = <<>> THEN NoType
    ELSE IF I = 0 THEN Head(Tuple)
    ELSE tuple_element(I - 1, Tail(Tuple))

\* Whether get<I>(t) compiles: its return type names tuple_element_t, and the
\* static_cast needs tuple_leaf<I, tuple_element_t<I, ...>> to be a base of t.
get_ok(t, I, Tuple) ==
    /\ tuple_element(I, Tuple) # NoType
    /\ tuple_leaf(I, tuple_element(I, Tuple)) \in DOMAIN t

\* A cast that selects the leaf by the element type alone: the first
\* position declared with that type.
get_by_type(t, I, Tuple) ==
    LET T == tuple_element(I, Tuple)
        J == CHOOSE j \in 0..I : Tuple[j + 1] = T /\ \A h \in 0..(j - 1) : Tuple[h + 1] # T
    IN  t[tuple_leaf(J, T)]

\* get<I>(t): the value of the leaf the static_cast selects.
get(t, I, Tuple) == t[tuple_leaf(I, tuple_element(I, Tuple))]

\* get<I>(t) = w
put(t, I, Tuple, w) == [t EXCEPT ![tuple_leaf(I, tuple_element(I, Tuple))] = w]

----------------------------------------------------------------------------
(* operator==.                                                             *)

\* A comparison of the first position only (the pack is not expanded).
tuple_equal_first(x, y, Tuple, Is) ==
    IF Is = <<>> THEN [res |-> TRUE, ev |-> <<>>]
    ELSE [res |-> ElemEq(get(x, Head(Is), Tuple), get(y, Head(Is), Tuple)),
          ev |-> <<Head(Is)>>]

\* A fold that evaluates every comparison before it combines them.
tuple_equal_eager(x, y, Tuple, Is) ==
    [res |-> \A k \in 1..Len(Is) : ElemEq(get(x, Is[k], Tuple), get(y, Is[k], Tuple)),
     ev |-> Is]

\* ((get<Is>(a) == get<Is>(b)) && ...): a right fold over the built-in &&,
\* E0 && (E1 && (... && En)).  The left operand is evaluated first and the
\* right one only if it is true.  res is the result, ev the positions whose
\* comparison was evaluated, in order.
RECURSIVE tuple_equal_impl(_, _, _, _)
tuple_equal_impl(x, y, Tuple, Is) ==
    IF Is = <<>> THEN [res |-> TRUE, ev |-> <<>>]
    ELSE LET I == Head(Is)
             c == ElemEq(get(x, I, Tuple), get(y, I, Tuple))
         IN  IF ~c THEN [res |-> FALSE, ev |-> <<I>>]
             ELSE LET r == tuple_equal_impl(x, y, Tuple, Tail(Is))
                  IN  [res |-> r.res, ev |-> <<I>> \o r.ev]

\* operator==(a, b)
operator_eq(x, y, Tuple) == tuple_equal_impl(x, y, Tuple, index_sequence_for(Tuple))

---------------------------------------------------------------------------------------------------------------------------------------------------
(* make_tuple.                                                             *)

\* The value category of an argument expression.
ValueCats == {"lvalue", "rvalue"}

\* Template argument deduction for the forwarding reference Ts&&: an lvalue
\* of type cv T deduces cv T&, an rvalue cv T.
Deduce(arg) ==
    [base |-> arg.val.t, const |-> arg.const, volatile |-> arg.volatile,
     ref |-> IF arg.cat = "lvalue" THEN "lvalue" ELSE "none"]

remove_reference(T) == [T EXCEPT !.ref = "none"]

\* The cv qualifiers of a reference type belong to the referred type, not
\* to the top level: remove_cv leaves a reference type as it is.
remove_cv(T) ==
    IF T.ref # "none" THEN T ELSE [T EXCEPT !.const = FALSE, !.volatile = FALSE]

\* The two steps in the wrong order: the cv qualifiers behind a reference
\* survive.
decay_cv_first(T) == remove_reference(remove_cv(T))

\* std::decay_t<T> of a type that is neither an array nor a function.
decay_t(T) == remove_cv(remove_reference(T))

\* make_tuple(args...): [type |-> tuple<std::decay_t<Ts>...>,
\*                       value |-> Tuple(std::forward<Ts>(args)...)]
\* (an argument converts to its own decayed type in one way).
make_tuple(qargs) ==
    LET Tuple == [k \in 1..Len(qargs) |-> decay_t(Deduce(qargs[k]))]
        vals  == CHOOSE v \in ConvertAll(Tuple, [k \in 1..Len(qargs) |-> qargs[k].val]) : TRUE
    IN  [type |-> Tuple, value |-> tuple_impl(Tuple, vals)]

----------------------------------------------------------------------------
(* The state machine: what a caller does with two tuples a and b of type   *)
(* tuple<Ts...>.  last records the operation of the latest step with its   *)
(* inputs and its result.  watch is a history variable: when armed, it     *)
(* remembers one earlier write through get until that slot is written      *)
(* again or its tuple is constructed or assigned anew.                     *)

NoOp == [op |-> "none", obj |-> "a", src |-> "a", pos |-> 0, val |-> NoVal,
         type |-> NoType, args |-> <<>>, res |-> FALSE, ev |-> <<>>,
         status |-> "ok", quals |-> <<>>, resTs |-> <<>>, resVals |-> <<>>]

Unarmed == [armed |-> FALSE, on |-> FALSE, obj |-> "a", pos |-> 0, val |-> NoVal]
Armed   == [Unarmed EXCEPT !.armed = TRUE]

Unwatch(o) ==
    IF watch.on /\ watch.obj = o
    THEN [watch EXCEPT !.on = FALSE, !.pos = 0, !.val = NoVal]
    ELSE watch

\* After get<I>(o) = w: w becomes the watched write, or an earlier watched
\* write to another slot stays the watched one.
WatchAfterWrite(o, I, w) ==
    IF ~watch.armed THEN {watch}
    ELSE {[watch EXCEPT !.on = TRUE, !.obj = o, !.pos = I, !.val = w]}
         \cup (IF watch.on /\ ~(watch.obj = o /\ watch.pos = I) THEN {watch} ELSE {})

\* tuple<Ts...> a{}, b{};
Init ==
    /\ Ts \in TypeSeqs
    /\ store = [o \in Objs |-> tuple_default(Ts)]
    /\ last = NoOp
    /\ watch = Unarmed

\* tuple<Ts...> o{args...}: sizeof...(Us) == sizeof...(Ts), leaf I from args[I].
Construct(o, args) ==
    /\ Len(args) = tuple_size(Ts)
    /\ \E vals \in ConvertAll(Ts, args) :
           store' = [store EXCEPT ![o] = tuple_impl(Ts, vals)]
    /\ last' = [NoOp EXCEPT !.op = "construct", !.obj = o, !.args = args]
    /\ watch' = Unwatch(o)
    /\ UNCHANGED Ts

\* A copy of the leaf at position 0 only; the others value-initialised.
copy_leaves_first(src) ==
    [k \in DOMAIN src |-> IF k[1] = 0 THEN src[k] ELSE ZeroOf(k[2])]

\* The defaulted copy constructor / copy assignment: leaf by leaf.
copy_leaves(src) == [k \in DOMAIN src |-> src[k]]

\* tuple<Ts...> dst(src);
CopyConstruct(dst, src) ==
    /\ dst # src
    /\ store' = [store EXCEPT ![dst] = copy_leaves(store[src])]
    /\ last' = [NoOp EXCEPT !.op = "copy_construct", !.obj = dst, !.src = src]
    /\ watch' = Unwatch(dst)
    /\ UNCHANGED Ts

\* dst = src;
CopyAssign(dst, src) ==
    /\ store' = [store EXCEPT ![dst] = copy_leaves(store[src])]
    /\ last' = [NoOp EXCEPT !.op = "copy_assign", !.obj = dst, !.src = src]
    /\ watch' = Unwatch(dst)
    /\ UNCHANGED Ts

\* get<I>(o) = w;
Write(o, I, w) ==
    /\ get_ok(store[o], I, Ts)
    /\ w \in InputsOf(tuple_element(I, Ts).base)
    /\ store' = [store EXCEPT ![o] = put(store[o], I, Ts, w)]
    /\ last' = [NoOp EXCEPT !.op = "write", !.obj = o, !.pos = I, !.val = w]
    /\ watch' \in WatchAfterWrite(o, I, w)
    /\ UNCHANGED Ts

\* ... get<P>(o) ...: a read where it compiles, no program where it does not.
Get(o, P) ==
    /\ last' = IF get_ok(store[o], P, Ts)
               THEN [NoOp EXCEPT !.op = "get", !.obj = o, !.pos = P,
                                 !.type = tuple_element(P, Ts),
                                 !.val = get(store[o], P, Ts)]
               ELSE [NoOp EXCEPT !.op = "get", !.obj = o, !.pos = P,
                                 !.status = "ill_formed"]
    /\ UNCHANGED <<Ts, store, watch>>

\* x == y
Equal(x, y) ==
    /\ LET r == operator_eq(store[x], store[y], Ts)
       IN  last' = [NoOp EXCEPT !.op = "eq", !.obj = x, !.src = y,
                                !.res = r.res, !.ev = r.ev]
    /\ UNCHANGED <<Ts, store, watch>>

\* make_tuple(args...) for the call that last holds.
MakeTuple ==
    /\ last.op = "make_tuple_call"
    /\ LET qargs == [k \in 1..Len(last.args) |->
                        [val |-> last.args[k], cat |-> last.quals[k].cat,
                         const |-> last.quals[k].const,
                         volatile |-> last.quals[k].volatile]]
           r == make_tuple(qargs)
       IN  last' = [last EXCEPT !.op = "make_tuple", !.resTs = r.type,
                        !.resVals = [k \in 1..Len(r.type) |-> get(r.value, k - 1, r.type)]]
    /\ UNCHANGED <<Ts, store, watch>>

\* Constructor arguments that already have the declared types.
SameTypeArgs(Tuple) ==
    {args \in [1..Len(Tuple) -> ArgVals] :
        \A k \in 1..Len(Tuple) : args[k].t = Tuple[k].base}

Next ==
    \/ \E o \in Objs : \E args \in SameTypeArgs(Ts) : Construct(o, args)
    \/ \E dst \in Objs, src \in Objs : CopyConstruct(dst, src)
    \/ \E dst \in Objs, src \in Objs : CopyAssign(dst, src)
    \/ \E o \in Objs : \E I \in 0..MaxArity : \E w \in ArgVals : Write(o, I, w)
    \/ \E o \in Objs : \E P \in 0..MaxArity : Get(o, P)
    \/ \E x \in Objs, y \in Objs : Equal(x, y)

Spec == Init /\ [][Next]_vars

----------------------------------------------------------------------------
(* SpecWatch: the tuple a alone, written, read, constructed and assigned   *)
(* from the value-initialised b, with the history variable armed.          *)

InitWatch ==
    /\ Ts \in ElemTypeSeqs
    /\ store = [o \in Objs |-> tuple_default(Ts)]
    /\ last = NoOp
    /\ watch = Armed

NextWatch ==
    \/ \E I \in 0..MaxElemArity : \E w \in ArgVals : Write("a", I, w)
    \/ \E P \in 0..MaxElemArity : Get("a", P)
    \/ \E args \in SameTypeArgs(Ts) : Construct("a", args)
    \/ CopyAssign("a", "b")

SpecWatch == InitWatch /\ [][NextWatch]_vars

----------------------------------------------------------------------------
(* SpecCtor: the tuple a constructed from arguments of any types, and read.*)

NextCtor ==
    \/ \E args \in [1..Len(Ts) -> ArgVals] : Construct("a", args)
    \/ \E P \in 0..MaxArity : Get("a", P)

SpecCtor == Init /\ [][NextCtor]_vars

----------------------------------------------------------------------------
(* SpecElem: tuple_element and get over the longer type sequences.         *)

InitElem ==
    /\ Ts \in ElemTypeSeqs
    /\ store = [o \in Objs |-> tuple_default(Ts)]
    /\ last = NoOp
    /\ watch = Unarmed

NextElem == \E o \in Objs : \E P \in 0..(MaxElemArity + 1) : Get(o, P)

SpecElem == InitElem /\ [][NextElem]_vars

----------------------------------------------------------------------------
(* SpecMake: one call of make_tuple per behaviour, on any arguments.       *)

\* The values passed to make_tuple.
MakeVals == {Val("int", 1), Val("double", 1), Val("char", 1)}

Quals == [cat : ValueCats, const : BOOLEAN, volatile : BOOLEAN]

InitMake ==
    /\ Ts = <<>>
    /\ store = [o \in Objs |-> tuple_default(Ts)]
    /\ \E n \in 0..MaxElemArity :
         \E args \in [1..n -> MakeVals] :
           \E quals \in [1..n -> Quals] :
             last = [NoOp EXCEPT !.op = "make_tuple_call", !.args = args, !.quals = quals]
    /\ watch = Unarmed

NextMake == MakeTuple

SpecMake == InitMake /\ [][NextMake]_vars

----------------------------------------------------------------------------
(* The properties.                                                         *)

Positions(Tuple) == 0..(Len(Tuple) - 1)

\* A value as a number of halves, and two values being the same number
\* (or the same NaN), whatever their types.
AsHalves(x) == IF x.t = "double" THEN x.v ELSE 2 * x.v
SameValue(x, y) == IF x.nan \/ y.nan THEN x = y ELSE AsHalves(x) = AsHalves(y)

\* The conversion of x to T has defined behaviour / loses nothing.
Defined(T, x) == ~x.nan \/ T.base = "double"
Exact(T, x) ==
    \/ x.t = T.base
    \/ x.t # "double"
    \/ T.base = "double"
    \/ (~x.nan /\ x.v % 2 = 0)

\* The positions at which the tuples x and y compare unequal.
Diff(x, y) ==
    {i \in Positions(Ts) : ~ElemEq(get(store[x], i, Ts), get(store[y], i, Ts))}

Least(S) == CHOOSE m \in S : \A n \in S : m <= n

\* C1 as stated: right after tuple<Ts...> o{v0, ..., v(N-1)} (every
\* conversion having defined behaviour), get<i>(o) is equal to vi at every
\* position i.
C1_PositionalFidelity ==
    (last.op = "construct"
       /\ \A i \in Positions(Ts) : Defined(Ts[i + 1], last.args[i + 1]))
    => \A i \in Positions(Ts) :
          SameValue(get(store[last.obj], i, Ts), last.args[i + 1])

\* C1 amended: right after the construction, get<i>(o) is vi converted to
\* the declared type of position i: a value of that type the conversion can
\* produce, vi itself when vi has that type, and equal to vi whenever the
\* type represents vi exactly.
C1_ConvertedFidelity ==
    last.op = "construct"
    => \A i \in Positions(Ts) :
          LET g == get(store[last.obj], i, Ts)
              v == last.args[i + 1]
          IN  /\ get_ok(store[last.obj], i, Ts)
              /\ g \in Convert(Ts[i + 1], v)
              /\ (v.t = Ts[i + 1].base => g = v)
              /\ (Exact(Ts[i + 1], v) => SameValue(g, v))

\* A tuple<..., int, ...> constructed with a double that is no integer at
\* that position, and with an argument of the declared type at another.
C1_Witness ==
    /\ last.op = "construct"
    /\ Len(Ts) = MaxArity
    /\ \E i \in Positions(Ts) :
          /\ Ts[i + 1].base = "int"
          /\ last.args[i + 1] = Val("double", 1)
          /\ get(store[last.obj], i, Ts) = Val("int", 0)
    /\ \E j \in Positions(Ts) :
          /\ last.args[j + 1].t = Ts[j + 1].base
          /\ last.args[j + 1].v = 1

\* C2: x == y is true if and only if the elements compare equal at every
\* position; in particular two empty tuples are equal, and tuples that
\* differ at one position are unequal.
C2_EqualityIsConjunction ==
    last.op = "eq"
    => /\ last.res <=> \A i \in Positions(Ts) :
                          ElemEq(get(store[last.obj], i, Ts), get(store[last.src], i, Ts))
       /\ (Ts = <<>> => last.res)
       /\ (Cardinality(Diff(last.obj, last.src)) = 1 => ~last.res)

\* Two tuples of full arity that differ at the last position only, compared.
C2_Witness ==
    /\ last.op = "eq"
    /\ last.obj # last.src
    /\ Len(Ts) = MaxArity
    /\ Diff(last.obj, last.src) = {MaxArity - 1}
    /\ ~last.res

\* C3: once w is written through get<i>(t), position i of t holds w, and
\* a read get<i>(t) returns w, until position i is written again or t is
\* constructed or assigned anew, whatever else was read or written since.
C3_WriteIsObserved ==
    watch.on
    => /\ get_ok(store[watch.obj], watch.pos, Ts)
       /\ get(store[watch.obj], watch.pos, Ts) = watch.val
       /\ (last.op = "get" /\ last.obj = watch.obj /\ last.pos = watch.pos
             => last.status = "ok" /\ last.val = watch.val)

\* A watched write to one position, a later write of another value to an
\* earlier position of the same type: the watched value is still there.
C3_Witness ==
    /\ watch.on
    /\ last.op = "write"
    /\ last.obj = watch.obj
    /\ last.pos < watch.pos
    /\ Ts[last.pos + 1] = Ts[watch.pos + 1]
    /\ last.val # watch.val
    /\ get(store[watch.obj], watch.pos, Ts) = watch.val

\* C4: a step that writes through get<i>(t) leaves the value at every other
\* position of t as it was.
C4_SlotIndependence ==
    [][last'.op = "write"
         => \A j \in Positions(Ts) \ {last'.pos} :
               get(store'[last'.obj], j, Ts) = get(store[last'.obj], j, Ts)]_vars

\* After a write, another position of the same declared type holds another
\* value than the one written.
C4_Witness ==
    /\ last.op = "write"
    /\ \E j \in Positions(Ts) \ {last.pos} :
          /\ Ts[j + 1] = Ts[last.pos + 1]
          /\ get(store[last.obj], j, Ts) # last.val
          /\ get(store[last.obj], j, Ts) # ZeroOf(Ts[j + 1])
    /\ get(store[last.obj], last.pos, Ts) = last.val

\* C5 as stated: t == t is true, whatever t holds.
C5_Reflexive ==
    (last.op = "eq" /\ last.obj = last.src) => last.res

\* C5 amended: t == t is true exactly when no element of t is a NaN (every
\* element compares equal to itself).
C5_ReflexiveUnlessNaN ==
    (last.op = "eq" /\ last.obj = last.src)
    => (last.res <=> \A i \in Positions(Ts) : ~get(store[last.obj], i, Ts).nan)

\* A tuple that holds a NaN, compared with itself: the result is false.
C5_Witness ==
    /\ last.op = "eq"
    /\ last.obj = last.src
    /\ \E i \in Positions(Ts) : get(store[last.obj], i, Ts) = NaN
    /\ ~last.res

\* C6: make_tuple(a0, ..., a(N-1)) has the type sequence of the arguments'
\* unqualified value types, in argument order, whatever the value category
\* and the cv qualifiers of each argument, and holds argument i at position i.
C6_ConstructionInference ==
    last.op = "make_tuple"
    => /\ Len(last.resTs) = Len(last.args)
       /\ Len(last.resVals) = Len(last.args)
       /\ \A k \in 1..Len(last.args) :
             /\ last.resTs[k] = Plain(last.args[k].t)
             /\ last.resVals[k] = last.args[k]

\* A call with a const lvalue, a volatile lvalue and a plain rvalue of three
\* different types.
C6_Witness ==
    /\ last.op = "make_tuple"
    /\ Len(last.args) = MaxElemArity
    /\ \E k \in 1..Len(last.args) :
          last.quals[k] = [cat |-> "lvalue", const |-> TRUE, volatile |-> FALSE]
    /\ \E k \in 1..Len(last.args) :
          last.quals[k] = [cat |-> "lvalue", const |-> FALSE, volatile |-> TRUE]
    /\ \E k \in 1..Len(last.args) :
          last.quals[k] = [cat |-> "rvalue", const |-> FALSE, volatile |-> FALSE]
    /\ Cardinality({last.resTs[k] : k \in 1..Len(last.args)}) = Cardinality(BaseTypes)

\* C7: tuple_element<i, tuple<Ts...>> is the i-th declared type for every
\* i < N, and get<i> has that type.
C7_ElementType ==
    /\ \A i \in Positions(Ts) : tuple_element(i, Ts) = Ts[i + 1]
    /\ (last.op = "get" /\ last.pos < Len(Ts))
         => (last.status = "ok" /\ last.type = Ts[last.pos + 1])

\* A read at the last position of a tuple whose first and last types are
\* the same and whose middle type is another.
C7_Witness ==
    /\ last.op = "get"
    /\ Len(Ts) = MaxElemArity
    /\ last.pos = MaxElemArity - 1
    /\ Ts[1] = Ts[MaxElemArity]
    /\ Ts[MaxElemArity - 1] # Ts[1]
    /\ last.type = Ts[MaxElemArity]

\* C8: for P >= N, tuple_element<P, tuple<Ts...>> names no type and get<P>
\* is ill-formed: the request yields no value and changes nothing.
C8_OutOfRangeRejected ==
    /\ \A P \in Len(Ts)..(MaxElemArity + 1) :
          /\ tuple_element(P, Ts) = NoType
          /\ \A o \in Objs : ~get_ok(store[o], P, Ts)
    /\ (last.op = "get" /\ last.pos >= Len(Ts))
         => /\ last.status = "ill_formed"
            /\ last.val = NoVal
            /\ last.type = NoType
    /\ store = [o \in Objs |-> tuple_default(Ts)]

\* get<N> asked of a tuple of N >= 1 elements.
C8_Witness ==
    /\ last.op = "get"
    /\ Len(Ts) >= 1
    /\ last.pos = Len(Ts)
    /\ last.status = "ill_formed"

\* C9: a step that copy-constructs or copy-assigns dst from src leaves dst
\* with the value src had at every position and src as it was; a step that
\* writes through get on one tuple leaves the other tuple as it was.
C9_CopyIndependence ==
    [][/\ last'.op \in {"copy_construct", "copy_assign"}
          => /\ \A i \in Positions(Ts) :
                   get(store'[last'.obj], i, Ts) = get(store[last'.src], i, Ts)
             /\ store'[last'.src] = store[last'.src]
       /\ last'.op = "write"
          => \A o \in Objs \ {last'.obj} : store'[o] = store[o]]_vars

\* A copy between the two tuples whose source holds a value other than the
\* value-initialised one at its last position.
C9_Witness ==
    /\ last.op \in {"copy_construct", "copy_assign"}
    /\ last.obj # last.src
    /\ Len(Ts) = MaxArity
    /\ get(store[last.src], MaxArity - 1, Ts) # ZeroOf(Ts[MaxArity])
    /\ \A i \in Positions(Ts) :
          get(store[last.obj], i, Ts) = get(store[last.src], i, Ts)

\* C10 as stated: a call of operator== evaluates the comparison at all N
\* positions.
C10_EvaluatesAll ==
    last.op = "eq" => Len(last.ev) = Len(Ts)

\* C10 amended: a call of operator== evaluates the comparisons in position
\* order and stops after the first position that compares unequal; it
\* evaluates all N exactly when the first N - 1 positions compare equal.
C10_StopsAtFirstUnequal ==
    last.op = "eq"
    => LET d == Diff(last.obj, last.src)
           m == IF d = {} THEN Len(Ts) ELSE Least(d) + 1
       IN  /\ last.ev = [k \in 1..m |-> k - 1]
           /\ (Len(last.ev) = Len(Ts) <=> \A i \in d : i = Len(Ts) - 1)

\* Two tuples unequal at position 0: the comparison at position 1 is never
\* evaluated.
C10_Witness ==
    /\ last.op = "eq"
    /\ Len(Ts) = MaxArity
    /\ 0 \in Diff(last.obj, last.src)
    /\ last.ev = <<0>>
    /\ ~last.res

====
